---- MODULE Spec2Model ----
(***************************************************************************)
(* Model of the smali patcher: the line normaliser, the script parser, the *)
(* PATCH / REPLACE / CREATE_METHOD appliers and the per-file orchestrator  *)
(* of src/patch_helper.py, and the script driver of src/smali_patch.py.    *)
(*                                                                         *)
(* A line of text is a sequence of one-character strings, so that strip,   *)
(* prefix tests, whitespace collapsing and pattern matching are computed   *)
(* character by character as the Python code computes them.  A buffer is a *)
(* sequence of lines.                                                      *)
(***************************************************************************)
EXTENDS Integers, Sequences, FiniteSets, TLC

VARIABLES
    lines,       \* the target buffer handed to an applier
    action,      \* the action handed to an applier
    non_strict,  \* the matching mode flag
    result,      \* what the applier returned (a buffer, or Fail)
    pc,          \* "ready" before the applier ran, "done" after
    inserted,    \* number of ignorable lines inserted into the target so far
    base,        \* the target before any insertion, and
    baseResult,  \*   what the applier returned for it
    disk,        \* the target file on disk (NoFile when absent)
    before,      \* the file on disk before the last apply_file_patch call
    patch,       \* the Patch handed to the last apply_file_patch call
    status,      \* the ApplyResult of the last apply_file_patch call
    buffer,      \* modified_lines when the last apply_file_patch call returned
    work_dir,    \* the files under the work directory, by path
    patches,     \* the Patches parsed from the script of a run
    stop_on_fail,  \* the caller's stop-on-first-failure policy
    next_i,      \* index (from 0) of the Patch the loop of a run takes next
    results,     \* the Patches attempted so far in a run, with their results
    success_count, \* the counter of the loop of a run
    returned,    \* what the run returned ("running" until it has)
    script,      \* the lines of an edit script handed to the parser
    parsed       \* what the parser returned for it

runVars == <<work_dir, patches, stop_on_fail, next_i, results, success_count,
             returned>>

parseVars == <<script, parsed>>

vars == <<lines, action, non_strict, result, pc, inserted, base, baseResult,
          disk, before, patch, status, buffer, runVars, parseVars>>

(***************************************************************************)
(* Text helpers                                                            *)
(***************************************************************************)

\* Python's None as returned by normalize: no line is this sequence, because
\* every element of a line is a string of length one.
None == <<"None">>

\* Python's None as returned by an applier: no buffer holds the line None.
Fail == <<None>>

\* str.isspace for the characters of the model's alphabet
IsSpace(c) == c \in {" ", "\t"}

IsDigit(c) == c \in {"0", "1", "2", "3", "4", "5", "6", "7", "8", "9"}

\* a character of the regular expression class \w
IsWordChar(c) ==
    \/ IsDigit(c)
    \/ c \in {"a", "b", "c", "d", "e", "f", "g", "h", "i", "j", "k", "l", "m",
              "n", "o", "p", "q", "r", "s", "t", "u", "v", "w", "x", "y", "z",
              "A", "B", "C", "D", "E", "F", "G", "H", "I", "J", "K", "L", "M",
              "N", "O", "P", "Q", "R", "S", "T", "U", "V", "W", "X", "Y", "Z",
              "_"}

RECURSIVE LStrip(_)
LStrip(s) ==
    IF s # <<>> /\ IsSpace(Head(s)) THEN LStrip(Tail(s)) ELSE s

RECURSIVE RStrip(_)
RStrip(s) ==
    IF s # <<>> /\ IsSpace(s[Len(s)]) THEN RStrip(SubSeq(s, 1, Len(s) - 1)) ELSE s

\* str.strip()
Strip(s) == RStrip(LStrip(s))

\* str.startswith(prefix)
StartsWith(s, prefix) ==
    /\ Len(prefix) <= Len(s)
    /\ SubSeq(s, 1, Len(prefix)) = prefix

\* re.sub(r'\s+', ' ', line): every run of whitespace becomes one space
RECURSIVE CollapseSpace(_)
CollapseSpace(s) ==
    IF s = <<>> THEN <<>>
    ELSE IF IsSpace(Head(s))
         THEN <<" ">> \o CollapseSpace(LStrip(s))
         ELSE <<Head(s)>> \o CollapseSpace(Tail(s))

\* number of leading digits of s
RECURSIVE DigitRun(_)
DigitRun(s) ==
    IF s # <<>> /\ IsDigit(Head(s)) THEN 1 + DigitRun(Tail(s)) ELSE 0

\* the register substitution with a pattern that does not look behind for a
\* colon
RECURSIVE RegisterSubAfterColon(_, _)
RegisterSubAfterColon(s, i) ==
    IF i > Len(s) THEN <<>>
    ELSE LET d    == DigitRun(SubSeq(s, i + 1, Len(s)))
             hit  == /\ s[i] \in {"v", "p"}
                     /\ (i = 1 \/ ~IsWordChar(s[i - 1]))
                     /\ d >= 1
                     /\ (i + d = Len(s) \/ ~IsWordChar(s[i + d + 1]))
         IN  IF hit THEN <<s[i], "X">> \o RegisterSubAfterColon(s, i + d + 1)
             ELSE <<s[i]>> \o RegisterSubAfterColon(s, i + 1)

\* re.sub(r'(?<!\:)\b([vp])\d+\b', r'\1X', line), scanning s from index i;
\* a match starts at a 'v' or 'p' that follows neither a colon nor a word
\* character, takes all the digits after it and must end at a word boundary.
RECURSIVE RegisterSub(_, _)
RegisterSub(s, i) ==
    IF i > Len(s) THEN <<>>
    ELSE LET d    == DigitRun(SubSeq(s, i + 1, Len(s)))
             hit  == /\ s[i] \in {"v", "p"}
                     /\ (i = 1 \/ (s[i - 1] # ":" /\ ~IsWordChar(s[i - 1])))
                     /\ d >= 1
                     /\ (i + d = Len(s) \/ ~IsWordChar(s[i + d + 1]))
         IN  IF hit THEN <<s[i], "X">> \o RegisterSub(s, i + d + 1)
             ELSE <<s[i]>> \o RegisterSub(s, i + 1)

\* the prefixes that make a line skippable
IgnorablePrefixes ==
    { <<".", "l", "i", "n", "e">>,
      <<"#">>,
      <<".", "s", "o", "u", "r", "c", "e">>,
      <<".", "p", "r", "o", "l", "o", "g", "u", "e">>,
      <<".", "e", "p", "i", "l", "o", "g", "u", "e">> }

\* normalize(line, non_strict): None for a skippable line
normalize(line, ns) ==
    LET s == Strip(line)
    IN  IF s = <<>> \/ (\E p \in IgnorablePrefixes : StartsWith(s, p))
        THEN None
        ELSE IF ns THEN RegisterSub(CollapseSpace(s), 1)
             ELSE CollapseSpace(s)

\* `not normalize(line, non_strict)`: the line carries no meaning for matching
Ignorable(line, ns) == normalize(line, ns) = None

(***************************************************************************)
(* PATCH applier                                                           *)
(***************************************************************************)

\* step 1 of _apply_patch: the normalized context and delete lines, in
\* script order, leaving out those that normalize to None
RECURSIVE fingerprint(_, _)
fingerprint(operations, ns) ==
    IF operations = <<>> THEN <<>>
    ELSE LET o == Head(operations)
             n == normalize(o.line, ns)
         IN  (IF o.op \in {" ", "-"} /\ n # None THEN <<n>> ELSE <<>>)
             \o fingerprint(Tail(operations), ns)

\* the inner while loop of step 2: TRUE when the whole fingerprint fp is
\* matched from entry fingerprint_idx on, reading the target from target_idx
RECURSIVE MatchFrom(_, _, _, _, _)
MatchFrom(ls, fp, fingerprint_idx, target_idx, ns) ==
    IF fingerprint_idx > Len(fp) THEN TRUE
    ELSE IF target_idx > Len(ls) THEN FALSE
    ELSE LET norm_target_line == normalize(ls[target_idx], ns)
         IN  IF norm_target_line = None
             THEN MatchFrom(ls, fp, fingerprint_idx, target_idx + 1, ns)
             ELSE IF norm_target_line = fp[fingerprint_idx]
                  THEN MatchFrom(ls, fp, fingerprint_idx + 1, target_idx + 1, ns)
                  ELSE FALSE

\* step 2: the first index (from 1) at which the fingerprint matches, 0 when
\* there is none (the code's -1)
match_start_idx(ls, fp, ns) ==
    LET hits == {i \in 1..Len(ls) : MatchFrom(ls, fp, 1, i, ns)}
    IN  IF hits = {} THEN 0
        ELSE CHOOSE i \in hits : \A k \in hits : i <= k

\* the skipping loop of step 3: the index of the first target line at or
\* after target_idx that does not normalize to None (Len(ls) + 1 if none)
RECURSIVE SkipMeaningless(_, _, _)
SkipMeaningless(ls, target_idx, ns) ==
    IF target_idx <= Len(ls) /\ Ignorable(ls[target_idx], ns)
    THEN SkipMeaningless(ls, target_idx + 1, ns)
    ELSE target_idx

\* ApplyOperations with a context line written back in the script's text
\* instead of the target's
RECURSIVE ApplyOperationsScriptText(_, _, _, _, _, _)
ApplyOperationsScriptText(ls, operations, op_idx, target_idx, modified_lines, ns) ==
    IF op_idx > Len(operations)
    THEN modified_lines \o SubSeq(ls, target_idx, Len(ls))
    ELSE LET o == operations[op_idx]
         IN  IF o.op = "+"
             THEN ApplyOperationsScriptText(ls, operations, op_idx + 1, target_idx,
                                            Append(modified_lines, o.line), ns)
             ELSE LET t    == SkipMeaningless(ls, target_idx, ns)
                      kept == IF o.op = " "
                              THEN modified_lines \o SubSeq(ls, target_idx, t - 1)
                              ELSE modified_lines
                  IN  IF t > Len(ls) THEN Fail
                      ELSE ApplyOperationsScriptText(ls, operations, op_idx + 1, t + 1,
                               IF o.op = " " THEN Append(kept, o.line) ELSE kept,
                               ns)

\* step 3: the streaming rewrite from operation op_idx and target line
\* target_idx on, modified_lines being the output so far
RECURSIVE ApplyOperations(_, _, _, _, _, _)
ApplyOperations(ls, operations, op_idx, target_idx, modified_lines, ns) ==
    IF op_idx > Len(operations)
    THEN modified_lines \o SubSeq(ls, target_idx, Len(ls))
    ELSE LET o == operations[op_idx]
         IN  IF o.op = "+"
             THEN ApplyOperations(ls, operations, op_idx + 1, target_idx,
                                  Append(modified_lines, o.line), ns)
             ELSE LET t    == SkipMeaningless(ls, target_idx, ns)
                      kept == IF o.op = " "
                              THEN modified_lines \o SubSeq(ls, target_idx, t - 1)
                              ELSE modified_lines
                  IN  IF t > Len(ls) THEN Fail
                      ELSE ApplyOperations(ls, operations, op_idx + 1, t + 1,
                               IF o.op = " " THEN Append(kept, ls[t]) ELSE kept,
                               ns)

\* _apply_patch with an empty fingerprint routed to a no-context mode that
\* appends the Add lines to the target
_apply_patch_no_context(ls, a, ns) ==
    LET fp   == fingerprint(a.operations, ns)
        adds == SelectSeq(a.operations, LAMBDA o : o.op = "+")
    IN  IF fp = <<>> THEN ls \o [k \in 1..Len(adds) |-> adds[k].line]
        ELSE LET start == match_start_idx(ls, fp, ns)
             IN  IF start = 0 THEN Fail
                 ELSE ApplyOperations(ls, a.operations, 1, start,
                                      SubSeq(ls, 1, start - 1), ns)

\* _apply_patch(lines, action, non_strict); the action's method_sig is not read
_apply_patch(ls, a, ns) ==
    LET fp == fingerprint(a.operations, ns)
    IN  IF fp = <<>> THEN Fail
        ELSE LET start == match_start_idx(ls, fp, ns)
             IN  IF start = 0 THEN Fail
                 ELSE ApplyOperations(ls, a.operations, 1, start,
                                      SubSeq(ls, 1, start - 1), ns)

\* the target line each context or delete operation consumes in step 3, in
\* script order, as records [idx, op] (the lines `target_idx += 1; op_idx += 1`)
RECURSIVE Consumed(_, _, _, _, _)
Consumed(ls, operations, op_idx, target_idx, ns) ==
    IF op_idx > Len(operations) THEN <<>>
    ELSE LET o == operations[op_idx]
         IN  IF o.op = "+"
             THEN Consumed(ls, operations, op_idx + 1, target_idx, ns)
             ELSE LET t == SkipMeaningless(ls, target_idx, ns)
                  IN  IF t > Len(ls) THEN <<>>
                      ELSE <<[idx |-> t, op |-> o.op]>>
                           \o Consumed(ls, operations, op_idx + 1, t + 1, ns)

\* the same for a whole call of _apply_patch, from the place where the
\* fingerprint matches; no line is consumed by a call that returns None for
\* an empty fingerprint or for a fingerprint that matches nowhere
ConsumedByAction(ls, a, ns) ==
    LET fp == fingerprint(a.operations, ns)
    IN  IF fp = <<>> THEN <<>>
        ELSE LET start == match_start_idx(ls, fp, ns)
             IN  IF start = 0 THEN <<>>
                 ELSE Consumed(ls, a.operations, 1, start, ns)

(***************************************************************************)
(* Method range resolver, REPLACE and CREATE_METHOD appliers               *)
(***************************************************************************)

\* Python's ls[i] for an index from 0, a negative i counting from the end
PyIndex(ls, i) == IF i >= 0 THEN ls[i + 1] ELSE ls[Len(ls) + i + 1]

\* the position, from 0, that Python's slicing gives to the bound i
PyBound(ls, i) ==
    IF i >= 0 THEN (IF i > Len(ls) THEN Len(ls) ELSE i)
    ELSE (IF Len(ls) + i < 0 THEN 0 ELSE Len(ls) + i)

\* Python's ls[:i]
PySliceTo(ls, i) == SubSeq(ls, 1, PyBound(ls, i))

\* Python's ls[i:]
PySliceFrom(ls, i) == SubSeq(ls, PyBound(ls, i) + 1, Len(ls))

\* method_sig_to_regex(method_sig).match(text): every character of the
\* signature stands for itself, except that a space stands for one or more
\* whitespace characters; the pattern is anchored at the start of text only
RECURSIVE PatternMatch(_, _)
PatternMatch(method_sig, text) ==
    IF method_sig = <<>> THEN TRUE
    ELSE IF Head(method_sig) = " "
         THEN \E n \in 1..Len(text) :
                  /\ \A i \in 1..n : IsSpace(text[i])
                  /\ PatternMatch(Tail(method_sig), SubSeq(text, n + 1, Len(text)))
         ELSE /\ text # <<>>
              /\ Head(text) = Head(method_sig)
              /\ PatternMatch(Tail(method_sig), Tail(text))

\* '.end method'
EndMethod == <<".", "e", "n", "d", " ", "m", "e", "t", "h", "o", "d">>

\* '.end class'
EndClass == <<".", "e", "n", "d", " ", "c", "l", "a", "s", "s">>

\* the inner loop of find_method_range: the index (from 0) of the first line
\* at or after j that is '.end method' once stripped, -1 when there is none
RECURSIVE FindEnd(_, _)
FindEnd(ls, j) ==
    IF j >= Len(ls) THEN -1
    ELSE IF Strip(ls[j + 1]) = EndMethod THEN j
    ELSE FindEnd(ls, j + 1)

\* the outer loop of find_method_range from index i (from 0) on: a pair
\* <<start, end>>, <<start, -1>> or <<-1, -1>>
RECURSIVE FindRangeFrom(_, _, _)
FindRangeFrom(ls, method_sig, i) ==
    IF i >= Len(ls) THEN <<-1, -1>>
    ELSE IF PatternMatch(method_sig, Strip(ls[i + 1]))
         THEN <<i, FindEnd(ls, i + 1)>>
         ELSE FindRangeFrom(ls, method_sig, i + 1)

\* find_method_range(lines, method_sig_to_regex(method_sig))
find_method_range(ls, method_sig) == FindRangeFrom(ls, method_sig, 0)

\* the KeyError that the subscript action['method_sig'] raises for an action
\* without the key (method_sig = None): no buffer holds the line "KeyError"
KeyError == << <<"KeyError">> >>

\* _apply_replace that drops the signature line with the old body
_apply_replace_from_start(ls, a) ==
    IF a.method_sig = None THEN KeyError
    ELSE LET r == find_method_range(ls, a.method_sig)
         IN  IF r[1] = -1 THEN Fail
             ELSE PySliceTo(ls, r[1]) \o a.content \o PySliceFrom(ls, r[2])

\* _apply_replace(lines, action): the key method_sig is read first, then
\* only start_idx is tested before the splice
_apply_replace(ls, a) ==
    IF a.method_sig = None THEN KeyError
    ELSE LET r         == find_method_range(ls, a.method_sig)
             start_idx == r[1]
             end_idx   == r[2]
         IN  IF start_idx = -1 THEN Fail
             ELSE PySliceTo(ls, start_idx + 1) \o a.content
                  \o PySliceFrom(ls, end_idx)

\* the backward scan of _apply_create_method from index i (from 0) down
RECURSIVE FindEndClass(_, _)
FindEndClass(ls, i) ==
    IF i < 0 THEN -1
    ELSE IF StartsWith(Strip(ls[i + 1]), EndClass) THEN i
    ELSE FindEndClass(ls, i - 1)

\* _apply_create_method(lines, action)
_apply_create_method(ls, a) ==
    LET insert_pos == FindEndClass(ls, Len(ls) - 1)
    IN  IF insert_pos = -1 THEN Fail
        ELSE LET new_content ==
                     IF Strip(PyIndex(ls, insert_pos - 1)) # <<>>
                     THEN << <<>> >> \o a.content
                     ELSE a.content
             IN  PySliceTo(ls, insert_pos) \o new_content
                 \o PySliceFrom(ls, insert_pos)

(***************************************************************************)
(* Per-file orchestrator                                                   *)
(*                                                                         *)
(* The content of a file is a sequence of characters, line terminators     *)
(* included.  Opening, reading and writing are taken to succeed: the       *)
(* IOError branches of the code are not modelled.                          *)
(***************************************************************************)

\* what the text-mode reader hands out: "\r\n" and a lone "\r" read as "\n"
RECURSIVE UniversalNewlines(_)
UniversalNewlines(content) ==
    IF content = <<>> THEN <<>>
    ELSE IF Head(content) = "\r"
         THEN <<"\n">> \o UniversalNewlines(
                  IF Len(content) >= 2 /\ content[2] = "\n"
                  THEN Tail(Tail(content)) ELSE Tail(content))
         ELSE <<Head(content)>> \o UniversalNewlines(Tail(content))

\* [line.rstrip('\r\n') for line in f.readlines()] on translated text, cur
\* being the line read so far
RECURSIVE SplitLines(_, _)
SplitLines(text, cur) ==
    IF text = <<>> THEN (IF cur = <<>> THEN <<>> ELSE <<cur>>)
    ELSE IF Head(text) = "\n" THEN <<cur>> \o SplitLines(Tail(text), <<>>)
    ELSE SplitLines(Tail(text), Append(cur, Head(text)))

\* original_lines as read from the file
ReadLines(content) == SplitLines(UniversalNewlines(content), <<>>)

\* '\n'.join(ls)
RECURSIVE JoinLines(_)
JoinLines(ls) ==
    IF ls = <<>> THEN <<>>
    ELSE IF Len(ls) = 1 THEN Head(ls)
    ELSE Head(ls) \o <<"\n">> \o JoinLines(Tail(ls))

\* f.write('\n'.join(modified_lines) + '\n')
WriteLines(ls) == JoinLines(ls) \o <<"\n">>

File(content) == [exists |-> TRUE, content |-> content]

\* the dispatch on action['type'] in the loop of apply_file_patch; result
\* stays None for any other type, and is KeyError when the applier raised
ApplyAction(ls, a, ns) ==
    IF a.type = "REPLACE" THEN _apply_replace(ls, a)
    ELSE IF a.type = "PATCH" THEN _apply_patch(ls, a, ns)
    ELSE IF a.type = "CREATE_METHOD" THEN _apply_create_method(ls, a)
    ELSE Fail

\* the action loop that goes on with the next action after a failed one
RECURSIVE RunActionsSkipFailed(_, _, _, _)
RunActionsSkipFailed(modified_lines, actions, j, ns) ==
    IF j > Len(actions)
    THEN [failed |-> FALSE, raised |-> FALSE, lines |-> modified_lines]
    ELSE LET res == ApplyAction(modified_lines, actions[j], ns)
         IN  IF res = KeyError
             THEN [failed |-> FALSE, raised |-> TRUE, lines |-> modified_lines]
             ELSE RunActionsSkipFailed(IF res = Fail THEN modified_lines
                                       ELSE res,
                                       actions, j + 1, ns)

\* the action loop of apply_file_patch from action j on: whether an action
\* returned None, whether one raised, and modified_lines when the loop was
\* left
RECURSIVE RunActions(_, _, _, _)
RunActions(modified_lines, actions, j, ns) ==
    IF j > Len(actions)
    THEN [failed |-> FALSE, raised |-> FALSE, lines |-> modified_lines]
    ELSE LET res == ApplyAction(modified_lines, actions[j], ns)
         IN  IF res = KeyError
             THEN [failed |-> FALSE, raised |-> TRUE, lines |-> modified_lines]
             ELSE IF res = Fail
             THEN [failed |-> TRUE, raised |-> FALSE, lines |-> modified_lines]
             ELSE RunActions(res, actions, j + 1, ns)

\* the end of apply_file_patch without the test for an unchanged buffer
ConcludeAlwaysWrites(file, original_lines, run) ==
    IF run.raised
    THEN [status |-> "raised", disk |-> file, buffer |-> run.lines]
    ELSE IF run.failed
    THEN [status |-> "hunk_failed", disk |-> file, buffer |-> run.lines]
    ELSE [status |-> "applied", disk |-> File(WriteLines(run.lines)),
          buffer |-> run.lines]

\* the end of apply_file_patch, the action loop having returned run:
\* "raised" without a write for an exception that no handler catches,
\* "hunk_failed" without a write, "skipped" without a write for an unchanged
\* buffer, else the write and "applied"
Conclude(file, original_lines, run) ==
    IF run.raised
    THEN [status |-> "raised", disk |-> file, buffer |-> run.lines]
    ELSE IF run.failed
    THEN [status |-> "hunk_failed", disk |-> file, buffer |-> run.lines]
    ELSE IF original_lines = run.lines
    THEN [status |-> "skipped", disk |-> file, buffer |-> run.lines]
    ELSE [status |-> "applied", disk |-> File(WriteLines(run.lines)),
          buffer |-> run.lines]

\* apply_file_patch once original_lines has been read
PatchLines(file, original_lines, actions, ns) ==
    Conclude(file, original_lines, RunActions(original_lines, actions, 1, ns))

\* apply_file_patch(work_dir, patch, non_strict) on the file at the patch's
\* path: the ApplyResult, the file afterwards and modified_lines at the return
apply_file_patch(file, actions, ns) ==
    IF ~file.exists
    THEN [status |-> "failed", disk |-> file, buffer |-> <<>>]
    ELSE PatchLines(file, ReadLines(file.content), actions, ns)

(***************************************************************************)
(* Inputs of the PATCH applier                                             *)
(***************************************************************************)

\* longest target buffer drawn
MaxTarget == 3

\* longest operation list drawn
MaxOps == 3

\* longest target and operation list drawn where lines get inserted, and
\* the most ignorable lines inserted into one target
MaxInsertTarget == 3

MaxInsertOps == 3

MaxInsert == 2

SeqsUpTo(S, n) == UNION {[1..k -> S] : k \in 0..n}

\* "v0" (the script's "v1" when non_strict), " v1" (the script's "v1" with
\* other spacing) and a blank line
TargetLines == { <<"v", "0">>, <<" ", "v", "1">>, <<>> }

\* the target lines that are not ignorable: the targets that gain ignorable
\* lines start from these
MeaningfulTargetLines == { <<"v", "0">>, <<" ", "v", "1">> }

\* "v1" and the comment "#c"
ScriptLines == { <<"v", "1">>, <<"#", "c">> }

\* a blank line, the comment "#i" and the directive ".line 7": ignorable
\* lines that occur in no script and in no target that gains lines
InsertLines == { <<>>, <<"#", "i">>, <<".", "l", "i", "n", "e", " ", "7">> }

\* the operations parse_patch_operations produces: ('+', text), ('-', text)
\* and (' ', text)
Operations == [op : {"+", "-", " "}, line : ScriptLines]

\* an action without the key 'method_sig'
NoSig == None

\* the PATCH actions without a signature of at most n operations
PatchActions(n) ==
    [type : {"PATCH"}, method_sig : {NoSig},
     operations : SeqsUpTo(Operations, n)]

\* the orchestrator's variables while an applier is checked on its own
NoFile == [exists |-> FALSE, content |-> <<>>]

\* no Patch has been applied yet
NoPatch == [type |-> "none"]

\* no run of the script driver is under way
RunIdle ==
    /\ work_dir = <<>>
    /\ patches = <<>>
    /\ stop_on_fail = FALSE
    /\ next_i = 0
    /\ results = <<>>
    /\ success_count = 0
    /\ returned = "none"

\* no script has been handed to the parser
ParseIdle ==
    /\ script = <<>>
    /\ parsed = <<>>

FileIdle ==
    /\ disk = NoFile
    /\ before = NoFile
    /\ patch = NoPatch
    /\ status = "none"
    /\ buffer = <<>>

\* an applier is about to be called on one of the targets with one of the
\* actions
InitApplier(targets, actions, modes) ==
    /\ lines \in targets
    /\ action \in actions
    /\ non_strict \in modes
    /\ result = Fail
    /\ pc = "ready"
    /\ inserted = 0
    /\ base = lines
    /\ baseResult = Fail
    /\ FileIdle
    /\ RunIdle
    /\ ParseIdle

InitPatch ==
    InitApplier(SeqsUpTo(TargetLines, MaxTarget), PatchActions(MaxOps), BOOLEAN)

\* one call result = _apply_patch(lines, action, non_strict)
ApplyPatchStep ==
    /\ pc = "ready"
    /\ action.type = "PATCH"
    /\ result' = _apply_patch(lines, action, non_strict)
    /\ baseResult' = result'
    /\ pc' = "done"
    /\ UNCHANGED <<lines, action, non_strict, inserted, base,
                   disk, before, patch, status, buffer>>
    /\ UNCHANGED <<runVars, parseVars>>

\* ls with the line g put in front of its k-th line (at the end for
\* k = Len(ls) + 1)
InsertAt(ls, k, g) == SubSeq(ls, 1, k - 1) \o <<g>> \o SubSeq(ls, k, Len(ls))

\* the positions k between two target lines that Context operations of the
\* action consume: after the line of one Context operation and not after the
\* line of a later one, whatever the operations in between consume
ContextGaps(ls, a, ns) ==
    LET gaps(c) == {k \in 1..(Len(ls) + 1) :
                       \E m, n \in 1..Len(c) :
                           /\ m < n
                           /\ c[m].op = " "
                           /\ c[n].op = " "
                           /\ c[m].idx < k
                           /\ k <= c[n].idx}
    IN  UNION {gaps(c) : c \in {ConsumedByAction(ls, a, ns)}}

\* an ignorable line (blank, comment or directive) turns up in the target
\* between two lines matched by Context operations, and the same action is
\* applied to the new target
InsertIgnorable ==
    /\ pc = "done"
    /\ action.type = "PATCH"
    /\ result # Fail
    /\ inserted < MaxInsert
    /\ \E k \in ContextGaps(lines, action, non_strict) :
           \E g \in InsertLines : lines' = InsertAt(lines, k, g)
    /\ result' = _apply_patch(lines', action, non_strict)
    /\ inserted' = inserted + 1
    /\ UNCHANGED <<action, non_strict, pc, base, baseResult,
                   disk, before, patch, status, buffer>>
    /\ UNCHANGED <<runVars, parseVars>>

NextPatch == ApplyPatchStep

SpecPatch == InitPatch /\ [][NextPatch]_vars

\* the PATCH applier on targets that gain ignorable lines
\* the actions with at least two Context operations
TwoContextActions(n) ==
    {a \in PatchActions(n) :
        \E i, j \in 1..Len(a.operations) :
            i < j /\ a.operations[i].op = " " /\ a.operations[j].op = " "}

InitInsert ==
    InitApplier(SeqsUpTo(MeaningfulTargetLines, MaxInsertTarget),
                TwoContextActions(MaxInsertOps), BOOLEAN)

NextInsert == ApplyPatchStep \/ InsertIgnorable

SpecInsert == InitInsert /\ [][NextInsert]_vars

(***************************************************************************)
(* Inputs of the appliers that work on methods and classes                 *)
(***************************************************************************)

\* longest target with methods drawn
MaxMethodTarget == 4

\* longest operation list of a PATCH action with a signature
MaxScopedOps == 2

\* longest body of a REPLACE or CREATE_METHOD action
MaxBody == 2

\* longest target drawn for CREATE_METHOD
MaxClassTarget == 3

\* ".method f"
SigF == <<".", "m", "e", "t", "h", "o", "d", " ", "f">>

\* ".method g", the signature of no method of any target
SigG == <<".", "m", "e", "t", "h", "o", "d", " ", "g">>

\* ".method f", "  .method  f2" (matched by the signature ".method f" too),
\* ".end method", " .end method" and "v0"
MethodLines ==
    { SigF,
      <<" ", " ", ".", "m", "e", "t", "h", "o", "d", " ", " ", "f", "2">>,
      EndMethod,
      <<" ">> \o EndMethod,
      <<"v", "0">> }

\* "v1"
BodyLines == { <<"v", "1">> }

ReplaceActions ==
    [type : {"REPLACE"}, method_sig : {SigF, SigG},
     content : SeqsUpTo(BodyLines, MaxBody)]

\* PATCH actions that carry a signature; their operations name "v0"
ScopedPatchActions ==
    [type : {"PATCH"}, method_sig : {SigF, SigG},
     operations : SeqsUpTo([op : {"+", "-", " "}, line : { <<"v", "0">> }],
                           MaxScopedOps)]

InitMethod ==
    InitApplier(SeqsUpTo(MethodLines, MaxMethodTarget),
                ReplaceActions \cup ScopedPatchActions, {FALSE})

\* one call result = _apply_replace(lines, action)
ApplyReplaceStep ==
    /\ pc = "ready"
    /\ action.type = "REPLACE"
    /\ result' = _apply_replace(lines, action)
    /\ baseResult' = result'
    /\ pc' = "done"
    /\ UNCHANGED <<lines, action, non_strict, inserted, base,
                   disk, before, patch, status, buffer>>
    /\ UNCHANGED <<runVars, parseVars>>

NextMethod == ApplyPatchStep \/ ApplyReplaceStep

SpecMethod == InitMethod /\ [][NextMethod]_vars

\* ".end class", "v0" and a blank line
ClassLines == { EndClass, <<"v", "0">>, <<>> }

CreateMethodActions ==
    [type : {"CREATE_METHOD"}, content : SeqsUpTo(BodyLines, MaxBody)]

InitCreateMethod ==
    InitApplier(SeqsUpTo(ClassLines, MaxClassTarget), CreateMethodActions, {FALSE})

\* one call result = _apply_create_method(lines, action)
ApplyCreateMethodStep ==
    /\ pc = "ready"
    /\ action.type = "CREATE_METHOD"
    /\ result' = _apply_create_method(lines, action)
    /\ baseResult' = result'
    /\ pc' = "done"
    /\ UNCHANGED <<lines, action, non_strict, inserted, base,
                   disk, before, patch, status, buffer>>
    /\ UNCHANGED <<runVars, parseVars>>

NextCreateMethod == ApplyCreateMethodStep

SpecCreateMethod == InitCreateMethod /\ [][NextCreateMethod]_vars

(***************************************************************************)
(* The orchestrator at work on one file path                               *)
(***************************************************************************)

\* most actions in one FileEdit Patch
MaxActions == 2

\* a Patch is applied only to a file of at most this many lines
MaxFileLines == 6

\* '\r\n'.join(ls) + '\r\n': a file with other line terminators
RECURSIVE CrLfLines(_)
CrLfLines(ls) ==
    IF ls = <<>> THEN <<>>
    ELSE Head(ls) \o <<"\r", "\n">> \o CrLfLines(Tail(ls))

\* a class with the method f
ClassText == << SigF, <<"v", "0">>, EndMethod, EndClass >>

\* the files the run may start from: the class as this tool writes it, with
\* "\r\n" terminators, without the final terminator; a method that lost its
\* '.end method'; no file at all
InitialFiles ==
    { File(WriteLines(ClassText)),
      File(CrLfLines(ClassText)),
      File(JoinLines(ClassText)),
      File(WriteLines(<< SigF, <<"v", "0">> >>)),
      NoFile }

\* the actions a FileEdit Patch is made of
FileActions ==
    { [type |-> "PATCH", method_sig |-> NoSig,
       operations |-> << [op |-> "-", line |-> <<"v", "0">>],
                         [op |-> "+", line |-> <<"v", "1">>] >>],
      [type |-> "PATCH", method_sig |-> NoSig,
       operations |-> << [op |-> " ", line |-> <<"v", "0">>] >>],
      [type |-> "PATCH", method_sig |-> NoSig,
       operations |-> << [op |-> "+", line |-> <<"v", "1">>] >>],
      [type |-> "REPLACE", method_sig |-> SigF, content |-> << <<"v", "1">> >>],
      [type |-> "REPLACE", method_sig |-> SigG, content |-> <<>>],
      [type |-> "CREATE_METHOD", content |-> << <<"v", "1">> >>] }

\* the FileEdit Patches: {'type': 'FILE', 'actions': [...]}
FilePatches == [type : {"FILE"}, actions : SeqsUpTo(FileActions, MaxActions)]

\* the FileCreate Patches: {'type': 'CREATE', 'content': [...]}
CreatePatches == [type : {"CREATE"}, content : {<<>>, ClassText}]

\* apply_create_action that writes whether or not the file exists
apply_create_action_overwrite(file, p) ==
    [status |-> "created", disk |-> File(WriteLines(p.content))]

\* apply_create_action(work_dir, patch) on the file at the patch's path
apply_create_action(file, p) ==
    IF file.exists THEN [status |-> "skipped", disk |-> file]
    ELSE [status |-> "created", disk |-> File(WriteLines(p.content))]

Init ==
    /\ disk \in InitialFiles
    /\ before = disk
    /\ patch = NoPatch
    /\ status = "none"
    /\ buffer = <<>>
    /\ non_strict = FALSE
    /\ lines = <<>>
    /\ action = [type |-> "none"]
    /\ result = Fail
    /\ pc = "idle"
    /\ inserted = 0
    /\ base = <<>>
    /\ baseResult = Fail
    /\ RunIdle
    /\ ParseIdle

\* one call of apply_file_patch for a FileEdit Patch
ApplyFilePatch ==
    /\ status = "none"
    /\ Len(ReadLines(disk.content)) <= MaxFileLines
    /\ \E p \in FilePatches, ns \in BOOLEAN :
           \E r \in {apply_file_patch(disk, p.actions, ns)} :
               /\ patch' = p
               /\ non_strict' = ns
               /\ before' = disk
               /\ disk' = r.disk
               /\ status' = r.status
               /\ buffer' = r.buffer
    /\ UNCHANGED <<lines, action, result, pc, inserted, base, baseResult>>
    /\ UNCHANGED <<runVars, parseVars>>

\* one call of apply_create_action for a FileCreate Patch
ApplyCreate ==
    /\ status = "none"
    /\ \E p \in CreatePatches :
           \E r \in {apply_create_action(disk, p)} :
               /\ patch' = p
               /\ before' = disk
               /\ disk' = r.disk
               /\ status' = r.status
    /\ buffer' = <<>>
    /\ UNCHANGED <<non_strict, lines, action, result, pc, inserted, base,
                   baseResult>>
    /\ UNCHANGED <<runVars, parseVars>>

\* the caller has taken the ApplyResult and turns to the next Patch of the
\* script, which finds the file as the last one left it
Return ==
    /\ status # "none"
    /\ status' = "none"
    /\ patch' = NoPatch
    /\ before' = disk
    /\ buffer' = <<>>
    /\ non_strict' = FALSE
    /\ UNCHANGED <<disk, lines, action, result, pc, inserted, base, baseResult>>
    /\ UNCHANGED <<runVars, parseVars>>

Next == ApplyFilePatch \/ ApplyCreate \/ Return

Spec == Init /\ [][Next]_vars

(***************************************************************************)
(* The script driver of src/smali_patch.py                                 *)
(*                                                                         *)
(* apply_smalipatch applies the Patches of a script one after another with *)
(* apply_single_patch, whose actions are REPLACE (apply_replace_action)    *)
(* and PATCH (apply_patch_action, which matches on the lines left after    *)
(* blank lines and '.line ' directives are taken out).  The run starts     *)
(* from the Patches parse_patches returned.                                *)
(***************************************************************************)

\* '.line '
DotLine == <<".", "l", "i", "n", "e", " ">>

\* the test of clean_smali_lines: stripped and not stripped.startswith('.line ')
IsClean(line) == Strip(line) # <<>> /\ ~StartsWith(Strip(line), DotLine)

\* mapping of clean_smali_lines from index i (from 0) on: the indices of the
\* lines that are kept
RECURSIVE CleanMapFrom(_, _)
CleanMapFrom(ls, i) ==
    IF i >= Len(ls) THEN <<>>
    ELSE (IF IsClean(ls[i + 1]) THEN <<i>> ELSE <<>>) \o CleanMapFrom(ls, i + 1)

\* the stripped lines of ls that are kept, in order
RECURSIVE CleanLines(_)
CleanLines(ls) ==
    IF ls = <<>> THEN <<>>
    ELSE (IF IsClean(Head(ls)) THEN <<Strip(Head(ls))>> ELSE <<>>)
         \o CleanLines(Tail(ls))

\* clean_smali_lines(lines)
clean_smali_lines(ls) ==
    [clean_lines |-> CleanLines(ls), mapping |-> CleanMapFrom(ls, 0)]

\* the lines of the operations whose op is in ops, in script order
RECURSIVE OperationLines(_, _)
OperationLines(operations, ops) ==
    IF operations = <<>> THEN <<>>
    ELSE (IF Head(operations).op \in ops THEN <<Head(operations).line>> ELSE <<>>)
         \o OperationLines(Tail(operations), ops)

\* Python's ls[i:j]
PySlice(ls, i, j) == SubSeq(ls, PyBound(ls, i) + 1, PyBound(ls, j))

\* the search of find_context from index i (from 0) on
RECURSIVE FindContextFrom(_, _, _)
FindContextFrom(search_lines, context_lines, i) ==
    IF i >= Len(search_lines) - Len(context_lines) + 1 THEN -1
    ELSE IF SubSeq(search_lines, i + 1, i + Len(context_lines)) = context_lines
    THEN i
    ELSE FindContextFrom(search_lines, context_lines, i + 1)

\* find_context(search_lines, context_lines)
find_context(search_lines, context_lines) ==
    IF context_lines = <<>> THEN -1
    ELSE FindContextFrom(search_lines, context_lines, 0)

\* the splice at the end of apply_patch_action, the context having been
\* found at index start of the clean lines
SpliceHunk(smali_lines, smali_map, operations, start) ==
    LET hunk_clean_len      == Len(CleanLines(OperationLines(operations,
                                                             {"+", "-", " "})))
        original_start_line == smali_map[start + 1]
        clean_end_index     == start + hunk_clean_len - 1
        next_clean_line_idx == start + hunk_clean_len
        original_end_line   ==
            IF clean_end_index >= Len(smali_map) THEN Len(smali_lines)
            ELSE IF next_clean_line_idx < Len(smali_map)
                 THEN smali_map[next_clean_line_idx + 1]
                 ELSE Len(smali_lines)
    IN  PySliceTo(smali_lines, original_start_line)
        \o OperationLines(operations, {" ", "+"})
        \o PySliceFrom(smali_lines, original_end_line)

\* apply_patch_action(smali_lines, action)
apply_patch_action(smali_lines, a) ==
    LET smali_clean         == clean_smali_lines(smali_lines).clean_lines
        smali_map           == clean_smali_lines(smali_lines).mapping
        patch_context_clean == CleanLines(OperationLines(a.operations, {" "}))
        scoped              == a.method_sig # None /\ a.method_sig # <<>>
        r                   == find_method_range(smali_clean, a.method_sig)
        search_lines        == IF scoped THEN PySlice(smali_clean, r[1], r[2] + 1)
                               ELSE smali_clean
        search_offset       == IF scoped THEN r[1] ELSE 0
        context_start_clean == find_context(search_lines, patch_context_clean)
    IN  IF patch_context_clean = <<>> THEN Fail
        ELSE IF scoped /\ r[1] = -1 THEN Fail
        ELSE IF context_start_clean = -1 THEN Fail
        ELSE SpliceHunk(smali_lines, smali_map, a.operations,
                        context_start_clean + search_offset)

\* apply_replace_action(smali_lines, action): the key method_sig is read
\* first
apply_replace_action(smali_lines, a) ==
    IF a.method_sig = None THEN KeyError
    ELSE LET r         == find_method_range(smali_lines, a.method_sig)
             start_idx == r[1]
             end_idx   == r[2]
         IN  IF start_idx = -1 THEN Fail
             ELSE PySliceTo(smali_lines, start_idx + 1) \o a.content
                  \o PySliceFrom(smali_lines, end_idx)

\* the local variable result of apply_single_patch before its first
\* assignment: no buffer holds the line "Unbound"
Unbound == << <<"Unbound">> >>

\* the dispatch on action['type'] in the loop of apply_single_patch, an
\* if/elif without an else: for a type that is neither REPLACE nor PATCH
\* result keeps the value the previous iteration gave it
SingleAction(ls, a, previous) ==
    IF a.type = "REPLACE" THEN apply_replace_action(ls, a)
    ELSE IF a.type = "PATCH" THEN apply_patch_action(ls, a)
    ELSE previous

\* the action loop of apply_single_patch from action j on, previous being
\* the value of result so far; reading result while it is unbound raises
\* UnboundLocalError, and the KeyError of an applier leaves the loop too
RECURSIVE SingleActions(_, _, _, _)
SingleActions(modified_lines, actions, j, previous) ==
    IF j > Len(actions)
    THEN [failed |-> FALSE, raised |-> FALSE, lines |-> modified_lines]
    ELSE LET res == SingleAction(modified_lines, actions[j], previous)
         IN  IF res \in {Unbound, KeyError}
             THEN [failed |-> FALSE, raised |-> TRUE, lines |-> modified_lines]
             ELSE IF res = Fail
             THEN [failed |-> TRUE, raised |-> FALSE, lines |-> modified_lines]
             ELSE SingleActions(res, actions, j + 1, res)

\* apply_single_patch(work_dir, patch) on the file at the patch's path: the
\* ApplyResult and the file afterwards ("raised" for an exception,
\* which no caller catches)
apply_single_patch(file, p) ==
    IF ~file.exists THEN [status |-> "failed", disk |-> file]
    ELSE LET original_lines == ReadLines(file.content)
             run            == SingleActions(original_lines, p.actions, 1,
                                             Unbound)
         IN  IF run.raised THEN [status |-> "raised", disk |-> file]
             ELSE IF run.failed THEN [status |-> "hunk_failed", disk |-> file]
             ELSE IF original_lines = run.lines
             THEN [status |-> "skipped", disk |-> file]
             ELSE [status |-> "applied", disk |-> File(WriteLines(run.lines))]

\* the branch on result in the loop of apply_smalipatch that never stops
AfterPatchNeverStops(res, count, stop) ==
    IF res \in {"applied", "skipped"}
    THEN [success_count |-> count + 1, returned |-> "running"]
    ELSE [success_count |-> count, returned |-> "running"]

\* the branch on result in the loop of apply_smalipatch: the counter
\* afterwards, and "False" when the loop is left by `return False`
AfterPatch(res, count, stop) ==
    IF res \in {"applied", "skipped"}
    THEN [success_count |-> count + 1, returned |-> "running"]
    ELSE [success_count |-> count,
          returned |-> IF stop THEN "False" ELSE "running"]

\* most Patches in one script
MaxPatches == 3

\* the paths the Patches of a run name
Paths == {"A.smali", "B.smali"}

\* the work directory a run starts from: the class at one path, no file at
\* the other
InitialWorkDir ==
    [f \in Paths |-> IF f = "A.smali" THEN File(WriteLines(ClassText))
                     ELSE NoFile]

\* the Patches a script is made of
RunPatches ==
    { [file_path |-> "A.smali",
       actions |-> << [type |-> "REPLACE", method_sig |-> SigF,
                       content |-> << <<"v", "1">> >>] >>],
      [file_path |-> "A.smali",
       actions |-> << [type |-> "REPLACE", method_sig |-> SigG,
                       content |-> <<>>] >>],
      [file_path |-> "A.smali",
       actions |-> << [type |-> "PATCH", method_sig |-> None,
                       operations |-> << [op |-> " ", line |-> <<"v", "0">>],
                                         [op |-> "-", line |-> EndMethod],
                                         [op |-> "+", line |-> EndMethod] >>] >>],
      [file_path |-> "A.smali",
       actions |-> << [type |-> "PATCH", method_sig |-> SigF,
                       operations |-> << [op |-> "-", line |-> <<"v", "1">>],
                                         [op |-> " ", line |-> EndMethod],
                                         [op |-> "+", line |-> <<"v", "0">>] >>] >>],
      [file_path |-> "B.smali", actions |-> <<>>] }

\* a run of apply_smalipatch is about to enter its loop
InitRun ==
    /\ work_dir = InitialWorkDir
    /\ patches \in SeqsUpTo(RunPatches, MaxPatches)
    /\ stop_on_fail \in BOOLEAN
    /\ next_i = 0
    /\ results = <<>>
    /\ success_count = 0
    /\ returned = "running"
    /\ lines = <<>>
    /\ action = [type |-> "none"]
    /\ non_strict = FALSE
    /\ result = Fail
    /\ pc = "idle"
    /\ inserted = 0
    /\ base = <<>>
    /\ baseResult = Fail
    /\ FileIdle
    /\ ParseIdle

\* `if not patches: ... return False`
NoPatches ==
    /\ returned = "running"
    /\ patches = <<>>
    /\ returned' = "False"
    /\ UNCHANGED <<work_dir, patches, stop_on_fail, next_i, results,
                   success_count>>
    /\ UNCHANGED <<lines, action, non_strict, result, pc, inserted, base,
                   baseResult, disk, before, patch, status, buffer, parseVars>>

\* one iteration of the loop: apply_single_patch on the next Patch, then the
\* branch on its result; an exception of apply_single_patch leaves
\* apply_smalipatch before result is assigned
ApplyNextPatch ==
    /\ returned = "running"
    /\ next_i < Len(patches)
    /\ \E p \in {patches[next_i + 1]} :
           \E r \in {apply_single_patch(work_dir[p.file_path], p)} :
               \E after \in {AfterPatch(r.status, success_count, stop_on_fail)} :
                   /\ work_dir' = [work_dir EXCEPT ![p.file_path] = r.disk]
                   /\ results' = IF r.status = "raised" THEN results
                                 ELSE Append(results, [i |-> next_i,
                                                       result |-> r.status])
                   /\ success_count' = IF r.status = "raised" THEN success_count
                                       ELSE after.success_count
                   /\ returned' = IF r.status = "raised" THEN "raised"
                                  ELSE after.returned
    /\ next_i' = next_i + 1
    /\ UNCHANGED <<patches, stop_on_fail>>
    /\ UNCHANGED <<lines, action, non_strict, result, pc, inserted, base,
                   baseResult, disk, before, patch, status, buffer, parseVars>>

\* the loop is over: `return success_count == total_patches`
FinishRun ==
    /\ returned = "running"
    /\ patches # <<>>
    /\ next_i = Len(patches)
    /\ returned' = IF success_count = Len(patches) THEN "True" ELSE "False"
    /\ UNCHANGED <<work_dir, patches, stop_on_fail, next_i, results,
                   success_count>>
    /\ UNCHANGED <<lines, action, non_strict, result, pc, inserted, base,
                   baseResult, disk, before, patch, status, buffer, parseVars>>

NextRun == NoPatches \/ ApplyNextPatch \/ FinishRun

SpecRun == InitRun /\ [][NextRun]_vars

(***************************************************************************)
(* Inputs of the line normaliser                                           *)
(***************************************************************************)

\* most pieces a line is put together from
MaxLineTokens == 3

\* most register tokens of a line that are given other digits
MaxRenumber == 2

\* the pieces lines are put together from: registers, a label, a space, an
\* underscore, the comment sign and a letter
LineTokens ==
    { <<"v", "0">>, <<"p", "7">>, <<":", "v", "0">>, <<" ">>, <<"_">>,
      <<"#">>, <<"a">> }

\* the digits a register token is given
RegisterDigits == { <<"0">>, <<"7">>, <<"1", "0">> }

\* the pieces of ts put one after another
RECURSIVE Concat(_)
Concat(ts) == IF ts = <<>> THEN <<>> ELSE Head(ts) \o Concat(Tail(ts))

NormalizeInputs == {Concat(ts) : ts \in SeqsUpTo(LineTokens, MaxLineTokens)}

\* a standalone register token starts at s[i]: a 'v' or 'p' that follows
\* neither a colon nor a word character, then digits up to a word boundary
RegisterTokenAt(s, i) ==
    /\ i \in 1..Len(s)
    /\ s[i] \in {"v", "p"}
    /\ (i = 1 \/ (s[i - 1] # ":" /\ ~IsWordChar(s[i - 1])))
    /\ DigitRun(SubSeq(s, i + 1, Len(s))) >= 1
    /\ \A e \in {i + DigitRun(SubSeq(s, i + 1, Len(s)))} :
           e = Len(s) \/ ~IsWordChar(s[e + 1])

\* s with the digits of the register token at s[i] replaced by d
WithDigits(s, i, d) ==
    SubSeq(s, 1, i) \o d
    \o SubSeq(s, i + 1 + DigitRun(SubSeq(s, i + 1, Len(s))), Len(s))

\* normalize is about to be called on a line and on a second line, so far
\* the same
InitNormalize ==
    /\ \E l \in NormalizeInputs : lines = <<l, l>>
    /\ non_strict \in BOOLEAN
    /\ result = Fail
    /\ pc = "ready"
    /\ inserted = 0
    /\ action = [type |-> "none"]
    /\ base = lines
    /\ baseResult = Fail
    /\ FileIdle
    /\ RunIdle
    /\ ParseIdle

\* one standalone register token of the second line gets other digits
RenumberRegister ==
    /\ pc = "ready"
    /\ inserted < MaxRenumber
    /\ \E i \in {j \in 1..Len(lines[2]) : RegisterTokenAt(lines[2], j)} :
           \E renumbered \in {WithDigits(lines[2], i, d) : d \in RegisterDigits}
                              \ {lines[2]} :
               lines' = <<lines[1], renumbered>>
    /\ inserted' = inserted + 1
    /\ UNCHANGED <<action, non_strict, result, pc, base, baseResult,
                   disk, before, patch, status, buffer>>
    /\ UNCHANGED <<runVars, parseVars>>

\* the calls normalize(line, non_strict) on the two lines
NormalizeStep ==
    /\ pc = "ready"
    /\ result' = <<normalize(lines[1], non_strict),
                   normalize(lines[2], non_strict)>>
    /\ pc' = "done"
    /\ UNCHANGED <<lines, action, non_strict, inserted, base, baseResult,
                   disk, before, patch, status, buffer>>
    /\ UNCHANGED <<runVars, parseVars>>

NextNormalize == RenumberRegister \/ NormalizeStep

SpecNormalize == InitNormalize /\ [][NextNormalize]_vars

(***************************************************************************)
(* Script parser                                                           *)
(***************************************************************************)

KwFile == <<"F", "I", "L", "E", " ">>

KwCreate == <<"C", "R", "E", "A", "T", "E", " ">>

KwReplace == <<"R", "E", "P", "L", "A", "C", "E", " ">>

KwPatch == <<"P", "A", "T", "C", "H">>

KwCreateMethod == <<"C", "R", "E", "A", "T", "E", "_", "M", "E", "T", "H", "O", "D">>

KwEnd == <<"E", "N", "D">>

\* BLOCK_TERMINATORS: 'FILE ', 'CREATE ' and 'REPLACE ' with their space
BLOCK_TERMINATORS ==
    {KwFile, KwCreate, KwReplace, KwPatch, KwCreateMethod, KwEnd}

\* the test of read_content_block on a stripped line:
\* line_strip == kw or line_strip.startswith(kw + ' ') for some terminator
IsTerminator(line_strip) ==
    \E kw \in BLOCK_TERMINATORS :
        line_strip = kw \/ StartsWith(line_strip, kw \o <<" ">>)

\* the loop of read_content_block from index i (from 0) on: the content read
\* and the index of the line to go on with; only an END line is consumed
RECURSIVE ReadContentFrom(_, _, _)
ReadContentFrom(ls, i, content) ==
    IF i >= Len(ls) THEN [content |-> content, i |-> i]
    ELSE IF IsTerminator(Strip(ls[i + 1]))
         THEN [content |-> content,
               i |-> IF Strip(ls[i + 1]) = KwEnd THEN i + 1 ELSE i]
         ELSE ReadContentFrom(ls, i + 1, Append(content, ls[i + 1]))

\* read_content_block(lines, start_index)
read_content_block(ls, start_index) == ReadContentFrom(ls, start_index, <<>>)

\* parse_patch_operations(lines)
RECURSIVE parse_patch_operations(_)
parse_patch_operations(ls) ==
    IF ls = <<>> THEN <<>>
    ELSE LET line == Head(ls)
         IN  << IF StartsWith(line, <<"+", " ">>)
                THEN [op |-> "+", line |-> SubSeq(line, 3, Len(line))]
                ELSE IF StartsWith(line, <<"-", " ">>)
                THEN [op |-> "-", line |-> SubSeq(line, 3, Len(line))]
                ELSE [op |-> " ", line |-> line] >>
             \o parse_patch_operations(Tail(ls))

\* the keyword an action type is written with
ActionKeyword(action_type) ==
    IF action_type = "REPLACE" THEN SubSeq(KwReplace, 1, Len(KwReplace) - 1)
    ELSE IF action_type = "PATCH" THEN KwPatch
    ELSE KwCreateMethod

\* parse_action_block(lines, start_index, action_type): the action and the
\* index to go on with.  The key method_sig is set for every action type
\* when the header is not empty and is absent otherwise; the field
\* method_sig is None for the absent key
parse_action_block(ls, start_index, action_type) ==
    LET line       == Strip(ls[start_index + 1])
        header     == Strip(SubSeq(line, Len(ActionKeyword(action_type)) + 1,
                                   Len(line)))
        method_sig == IF header = <<>> THEN None ELSE header
        block      == read_content_block(ls, start_index + 1)
    IN  [action |->
             IF action_type = "PATCH"
             THEN [type |-> "PATCH", method_sig |-> method_sig,
                   operations |-> parse_patch_operations(block.content)]
             ELSE [type |-> action_type, method_sig |-> method_sig,
                   content |-> block.content],
         i |-> block.i]

\* the action type a stripped line of a FILE block opens, "" for a line that
\* opens none
OpenedAction(line) ==
    IF StartsWith(line, KwReplace) THEN "REPLACE"
    ELSE IF StartsWith(line, KwPatch) THEN "PATCH"
    ELSE IF line = KwCreateMethod THEN "CREATE_METHOD"
    ELSE ""

\* the loop of parse_file_block from index i (from 0) on
RECURSIVE FileBlockFrom(_, _, _)
FileBlockFrom(ls, i, p) ==
    IF i >= Len(ls) THEN [patch |-> p, i |-> i]
    ELSE IF Strip(ls[i + 1]) = KwEnd THEN [patch |-> p, i |-> i + 1]
    ELSE IF OpenedAction(Strip(ls[i + 1])) # ""
    THEN LET r == parse_action_block(ls, i, OpenedAction(Strip(ls[i + 1])))
         IN  FileBlockFrom(ls, r.i,
                 [p EXCEPT !.actions = Append(p.actions, r.action)])
    ELSE FileBlockFrom(ls, i + 1, p)

\* parse_file_block(lines, start_index)
parse_file_block(ls, start_index) ==
    LET line == Strip(ls[start_index + 1])
    IN  FileBlockFrom(ls, start_index + 1,
            [type |-> "FILE",
             file_path |-> Strip(SubSeq(line, 6, Len(line))),
             actions |-> <<>>])

\* parse_create_block(lines, start_index)
parse_create_block(ls, start_index) ==
    LET line  == Strip(ls[start_index + 1])
        block == read_content_block(ls, start_index + 1)
    IN  [patch |-> [type |-> "CREATE",
                    file_path |-> Strip(SubSeq(line, 8, Len(line))),
                    content |-> block.content],
         i |-> block.i]

\* the loop of parse_patches from index i (from 0) on
RECURSIVE PatchesFrom(_, _, _)
PatchesFrom(ls, i, ps) ==
    IF i >= Len(ls) THEN ps
    ELSE IF StartsWith(Strip(ls[i + 1]), KwFile)
    THEN LET r == parse_file_block(ls, i)
         IN  PatchesFrom(ls, r.i, Append(ps, r.patch))
    ELSE IF StartsWith(Strip(ls[i + 1]), KwCreate)
    THEN LET r == parse_create_block(ls, i)
         IN  PatchesFrom(ls, r.i, Append(ps, r.patch))
    ELSE PatchesFrom(ls, i + 1, ps)

\* parse_patches(lines)
parse_patches(ls) == PatchesFrom(ls, 0, <<>>)

\* most lines in one script
MaxScript == 4

\* the lines scripts are made of: the keyword lines, a plain line and an Add
ScriptInputLines ==
    { <<"F", "I", "L", "E", " ", "a">>,
      <<"C", "R", "E", "A", "T", "E", " ", "b">>,
      <<"R", "E", "P", "L", "A", "C", "E", " ", "f">>,
      KwPatch,
      KwCreateMethod,
      KwEnd,
      <<"x">>,
      <<"+", " ", "y">> }

\* a script is about to be parsed
InitParse ==
    /\ script \in SeqsUpTo(ScriptInputLines, MaxScript)
    /\ parsed = <<>>
    /\ pc = "ready"
    /\ lines = <<>>
    /\ action = [type |-> "none"]
    /\ non_strict = FALSE
    /\ result = Fail
    /\ inserted = 0
    /\ base = <<>>
    /\ baseResult = Fail
    /\ FileIdle
    /\ RunIdle

\* one call parsed = parse_patches(script)
ParseStep ==
    /\ pc = "ready"
    /\ parsed' = parse_patches(script)
    /\ pc' = "done"
    /\ UNCHANGED <<script, lines, action, non_strict, result, inserted, base,
                   baseResult, disk, before, patch, status, buffer, runVars>>

NextParse == ParseStep

SpecParse == InitParse /\ [][NextParse]_vars

(***************************************************************************)
(* Claims about the PATCH applier                                          *)
(***************************************************************************)

\* the operations of the action that have to find a target line
Anchors(operations) == SelectSeq(operations, LAMBDA o : o.op \in {" ", "-"})

NoIgnorableAnchor(operations, ns) ==
    \A k \in 1..Len(operations) :
        operations[k].op \in {" ", "-"} => ~Ignorable(operations[k].line, ns)

\* the indices, at or after s, of the target lines that matter for matching
MeaningfulFrom(ls, s, ns) == {i \in s..Len(ls) : ~Ignorable(ls[i], ns)}

\* the k-th of them, counted from 1
NthMeaningful(ls, s, k, ns) ==
    LET M == MeaningfulFrom(ls, s, ns)
    IN  CHOOSE i \in M : Cardinality({j \in M : j <= i}) = k

\* the anchors line up with the meaningful target lines from s on
AlignsAt(ls, operations, s, ns) ==
    LET an == Anchors(operations)
    IN  /\ s \in 1..Len(ls)
        /\ Cardinality(MeaningfulFrom(ls, s, ns)) >= Len(an)
        /\ \A k \in 1..Len(an) :
               normalize(ls[NthMeaningful(ls, s, k, ns)], ns)
                   = normalize(an[k].line, ns)

HasAlignment(ls, operations, ns) ==
    \E s \in 1..Len(ls) : AlignsAt(ls, operations, s, ns)

FirstAlignment(ls, operations, ns) ==
    CHOOSE s \in 1..Len(ls) :
        /\ AlignsAt(ls, operations, s, ns)
        /\ \A r \in 1..(s - 1) : ~AlignsAt(ls, operations, r, ns)

\* the target line matched by the k-th anchor when the match starts at s
\* (s - 1 for k = 0)
MatchedLine(ls, s, k, ns) ==
    IF k = 0 THEN s - 1 ELSE NthMeaningful(ls, s, k, ns)

\* What operations j.. contribute, k anchors having been matched before.
\* withPassed tells whether a Context also contributes the ignorable target
\* lines between the previous matched line and its own.
RECURSIVE Contribution(_, _, _, _, _, _, _)
Contribution(ls, operations, j, k, s, ns, withPassed) ==
    IF j > Len(operations) THEN <<>>
    ELSE LET o == operations[j]
         IN  IF o.op = "+"
             THEN <<o.line>>
                  \o Contribution(ls, operations, j + 1, k, s, ns, withPassed)
             ELSE LET m == MatchedLine(ls, s, k + 1, ns)
                      p == MatchedLine(ls, s, k, ns)
                  IN  (IF o.op = "-" THEN <<>>
                       ELSE IF withPassed THEN SubSeq(ls, p + 1, m)
                       ELSE <<ls[m]>>)
                      \o Contribution(ls, operations, j + 1, k + 1, s, ns, withPassed)

\* the lines before index b, the contributions of the operations, the lines
\* after the last matched line
ExpectedPatch(ls, operations, ns, withPassed, b) ==
    LET s == FirstAlignment(ls, operations, ns)
        n == Len(Anchors(operations))
    IN  SubSeq(ls, 1, b - 1)
        \o Contribution(ls, operations, 1, 0, s, ns, withPassed)
        \o SubSeq(ls, MatchedLine(ls, s, n, ns) + 1, Len(ls))

\* the case C1 is about: the applier ran on an action whose anchors are all
\* meaningful and line up somewhere in the target
C1_Case ==
    /\ pc = "done"
    /\ action.type = "PATCH"
    /\ Anchors(action.operations) # <<>>
    /\ NoIgnorableAnchor(action.operations, non_strict)
    /\ HasAlignment(lines, action.operations, non_strict)

\* C1 as amended: on such an action _apply_patch returns the target lines
\* before the match (which starts at the first index from which the anchors
\* line up, ignorable lines right before the first matched line included),
\* then per operation in script order: an Add gives its script line, a
\* Context gives the ignorable target lines passed since the start of the
\* match or the previous matched line, followed by the original target line
\* it matched, a Delete gives nothing; then every target line after the last
\* matched one.
C1_PatchOutput ==
    C1_Case =>
        result = ExpectedPatch(lines, action.operations, non_strict, TRUE,
                     FirstAlignment(lines, action.operations, non_strict))

\* C1 as stated: a Context contributes just the target line it matched.  The
\* lines "before the match" are taken to end anywhere from the start of the
\* match to the first matched line, whichever fits the output.
C1_AsStated ==
    C1_Case =>
        LET s == FirstAlignment(lines, action.operations, non_strict)
        IN  \E b \in s..NthMeaningful(lines, s, 1, non_strict) :
                result = ExpectedPatch(lines, action.operations, non_strict,
                                       FALSE, b)

\* a Context, a Delete and an Add were applied, the Context kept a target
\* line whose text differs from the script's and passed an ignorable line
C1_Witness ==
    /\ C1_Case
    /\ result # Fail
    /\ \E i, j, k \in 1..Len(action.operations) :
           /\ action.operations[i].op = " "
           /\ action.operations[j].op = "-"
           /\ action.operations[k].op = "+"
    /\ \E i \in 1..Len(result) :
           /\ result[i] \notin ScriptLines
           /\ ~Ignorable(result[i], non_strict)
    /\ \E i \in 1..Len(result) : Ignorable(result[i], non_strict)
    /\ result # lines

\* the script lines of the Add operations, in script order
AddLines(operations) ==
    LET adds == SelectSeq(operations, LAMBDA o : o.op = "+")
    IN  [k \in 1..Len(adds) |-> adds[k].line]

\* C4: a PATCH action that applied successfully, applied again to its own
\* output, succeeds and returns that output unchanged (so that the file is
\* reported as already up to date)
C4_Idempotent ==
    (pc = "done" /\ action.type = "PATCH" /\ result # Fail) =>
        _apply_patch(result, action, non_strict) = result

\* the lines of ls that are not among the inserted ones
RECURSIVE WithoutInserted(_)
WithoutInserted(ls) ==
    IF ls = <<>> THEN <<>>
    ELSE (IF Head(ls) \in InsertLines THEN <<>> ELSE <<Head(ls)>>)
         \o WithoutInserted(Tail(ls))

\* C5: once a PATCH action has succeeded on a target, it still succeeds after
\* ignorable lines (blank lines, comments, directives) are inserted between
\* target lines that its Context operations match, and its output is the
\* earlier output with every inserted line kept: nothing else is added, lost
\* or reordered
C5_DirectiveTransparency ==
    (pc = "done" /\ inserted > 0) =>
        /\ result # Fail
        /\ WithoutInserted(lines) = base
        /\ WithoutInserted(result) = baseResult
        /\ Len(result) = Len(baseResult) + inserted

\* C6 as amended: a PATCH action without any Context or Delete operation is
\* an error: _apply_patch returns None for it, whatever the target
C6_NoAnchorFails ==
    (pc = "done" /\ action.type = "PATCH" /\ Anchors(action.operations) = <<>>)
        => result = Fail

\* C6 as stated: such an action (here: one with an Add operation) returns the
\* target followed by its Add lines in script order
C6_AsStated ==
    (/\ pc = "done"
     /\ action.type = "PATCH"
     /\ Anchors(action.operations) = <<>>
     /\ AddLines(action.operations) # <<>>)
        => result = lines \o AddLines(action.operations)

\* an action made of two Add operations was applied to a non-empty target
C6_Witness ==
    /\ pc = "done"
    /\ action.type = "PATCH"
    /\ Anchors(action.operations) = <<>>
    /\ Len(action.operations) >= 2
    /\ lines # <<>>
    /\ result = Fail

(***************************************************************************)
(* Claims about signatures, REPLACE and CREATE_METHOD                      *)
(***************************************************************************)

\* the indices (from 1) of the target lines that declare a method matching
\* the signature
SigLines(ls, method_sig) ==
    {i \in 1..Len(ls) : PatternMatch(method_sig, Strip(ls[i]))}

Min(S) == CHOOSE i \in S : \A k \in S : i <= k

Max(S) == CHOOSE i \in S : \A k \in S : i >= k

\* the '.end method' lines after line i
EndLinesAfter(ls, i) == {j \in (i + 1)..Len(ls) : Strip(ls[j]) = EndMethod}

\* the signature is found and an '.end method' line follows its first match
RangeResolved(ls, method_sig) ==
    /\ SigLines(ls, method_sig) # {}
    /\ EndLinesAfter(ls, Min(SigLines(ls, method_sig))) # {}

RangeStart(ls, method_sig) == Min(SigLines(ls, method_sig))

RangeEnd(ls, method_sig) == Min(EndLinesAfter(ls, RangeStart(ls, method_sig)))

\* C7: a PATCH action with a signature fails when the signature resolves to no
\* method range, and otherwise leaves every line outside the range of the
\* first matching method as it was: the lines before the method's declaration
\* open the output and the lines after its '.end method' close it
C7_SignatureScopes ==
    (pc = "done" /\ action.type = "PATCH" /\ action.method_sig # NoSig) =>
        IF ~RangeResolved(lines, action.method_sig) THEN result = Fail
        ELSE result # Fail =>
                 LET st  == RangeStart(lines, action.method_sig)
                     en  == RangeEnd(lines, action.method_sig)
                     tl  == Len(lines) - en
                 IN  /\ Len(result) >= (st - 1) + tl
                     /\ SubSeq(result, 1, st - 1) = SubSeq(lines, 1, st - 1)
                     /\ SubSeq(result, Len(result) - tl + 1, Len(result))
                            = SubSeq(lines, en + 1, Len(lines))

\* C8: when the range resolves, _apply_replace returns the target up to and
\* including the first line matching the signature, then the action's body,
\* then the target from the first '.end method' after that line to the end
C8_ReplaceBody ==
    (pc = "done" /\ action.type = "REPLACE"
        /\ RangeResolved(lines, action.method_sig)) =>
        LET st == RangeStart(lines, action.method_sig)
            en == RangeEnd(lines, action.method_sig)
        IN  result = SubSeq(lines, 1, st) \o action.content
                     \o SubSeq(lines, en, Len(lines))

\* a body replaced the lines of the first of two methods matching the
\* signature, lines standing before the method and an '.end method' after it
C8_Witness ==
    /\ pc = "done"
    /\ action.type = "REPLACE"
    /\ RangeResolved(lines, action.method_sig)
    /\ Cardinality(SigLines(lines, action.method_sig)) >= 2
    /\ RangeStart(lines, action.method_sig) > 1
    /\ RangeEnd(lines, action.method_sig) > RangeStart(lines, action.method_sig) + 1
    /\ action.content # <<>>
    /\ result # Fail
    /\ result # lines

\* C9: when the signature is found but no '.end method' follows its first
\* match, _apply_replace fails
C9_NoEndFails ==
    (/\ pc = "done"
     /\ action.type = "REPLACE"
     /\ SigLines(lines, action.method_sig) # {}
     /\ ~RangeResolved(lines, action.method_sig))
        => result = Fail

\* the class-end sentinel lines of the target
ClassEndLines(ls) == {i \in 1..Len(ls) : StartsWith(Strip(ls[i]), EndClass)}

\* C10: _apply_create_method fails without a class-end line; otherwise it puts
\* the body right before the last class-end line, after one blank line exactly
\* when a line stands before that class-end line and is not blank, and keeps
\* every target line
C10_CreateMethod ==
    (pc = "done" /\ action.type = "CREATE_METHOD") =>
        IF ClassEndLines(lines) = {} THEN result = Fail
        ELSE LET p   == Max(ClassEndLines(lines))
                 sep == IF p > 1 /\ Strip(lines[p - 1]) # <<>>
                        THEN << <<>> >> ELSE <<>>
             IN  result = SubSeq(lines, 1, p - 1) \o sep \o action.content
                          \o SubSeq(lines, p, Len(lines))

(***************************************************************************)
(* Claims about the per-file orchestrator                                  *)
(***************************************************************************)

\* the buffer after the first k actions, each applied to the output of the
\* one before; Fail once one of them has failed
RECURSIVE BufferAfter(_, _, _, _)
BufferAfter(ls, actions, k, ns) ==
    IF k = 0 THEN ls
    ELSE IF BufferAfter(ls, actions, k - 1, ns) = Fail THEN Fail
    ELSE ApplyAction(BufferAfter(ls, actions, k - 1, ns), actions[k], ns)

\* apply_file_patch has returned for a FileEdit Patch whose file existed
FileEditReturned ==
    /\ status # "none"
    /\ patch.type = "FILE"
    /\ before.exists

\* C2: if the k-th action of a FileEdit Patch fails on the buffer the earlier
\* actions produced, the result is hunk_failed, the file is what it was
\* before the call, and the buffer is the one the failing action was given:
\* no later action has touched it
C2_FailedPatchNotWritten ==
    FileEditReturned =>
        \A k \in 1..Len(patch.actions) :
            \A b \in {BufferAfter(ReadLines(before.content), patch.actions,
                                  k - 1, non_strict)} :
                (b # Fail /\ ApplyAction(b, patch.actions[k], non_strict) = Fail)
                    => /\ status = "hunk_failed"
                       /\ disk = before
                       /\ buffer = b

\* the second action of a Patch failed after the first had changed the
\* buffer; the file was left as it was
C2_Witness ==
    /\ FileEditReturned
    /\ status = "hunk_failed"
    /\ Len(patch.actions) = 2
    /\ buffer # ReadLines(before.content)
    /\ disk = before

\* C3: when every action of a FileEdit Patch succeeds, the result is skipped
\* and the file is not written if the final buffer equals the lines read;
\* otherwise the final buffer, every action applied to the output of the
\* one before, is written and the result is applied
C3_SkippedOrWritten ==
    FileEditReturned =>
        \A orig \in {ReadLines(before.content)} :
            \A final \in {BufferAfter(orig, patch.actions, Len(patch.actions),
                                      non_strict)} :
                final # Fail =>
                    IF final = orig
                    THEN status = "skipped" /\ disk = before
                    ELSE /\ status = "applied"
                         /\ buffer = final
                         /\ disk = File(WriteLines(final))

\* a Patch of two actions was applied and written, each action having
\* changed the buffer
C3_Witness ==
    /\ FileEditReturned
    /\ status = "applied"
    /\ Len(patch.actions) = 2
    /\ disk # before
    /\ \A orig \in {ReadLines(before.content)} :
           \A mid \in {BufferAfter(orig, patch.actions, 1, non_strict)} :
               mid # orig /\ mid # buffer

(***************************************************************************)
(* Claims about the script driver                                          *)
(***************************************************************************)

\* a result that apply_smalipatch counts as a success
Succeeded(res) == res \in {"applied", "skipped"}

\* the work directory after the first k Patches of the script, each applied
\* to the files the one before left
RECURSIVE WorkDirAfter(_)
WorkDirAfter(k) ==
    IF k = 0 THEN InitialWorkDir
    ELSE LET w == WorkDirAfter(k - 1)
             p == patches[k]
         IN  [w EXCEPT ![p.file_path] = apply_single_patch(w[p.file_path], p).disk]

\* the result of the k-th Patch of the script on the files the Patches before
\* it left
ResultInOrder(k) ==
    LET p == patches[k]
    IN  apply_single_patch(WorkDirAfter(k - 1)[p.file_path], p).status

\* the Patches attempted so far are the first ones of the script, in script
\* order, each applied to the files the one before left
AttemptedInScriptOrder ==
    /\ Len(results) <= Len(patches)
    /\ \A n \in 1..Len(results) :
           /\ results[n].i = n - 1
           /\ results[n].result = ResultInOrder(n)
    /\ work_dir = WorkDirAfter(Len(results))

\* with stop_on_fail set, a Patch that ended failed or hunk_failed is the
\* last one attempted and the function has returned False
StopsOnFirstFailure ==
    stop_on_fail =>
        \A n \in 1..Len(results) :
            ~Succeeded(results[n].result)
                => n = Len(results) /\ returned = "False"

\* every Patch of the script has been attempted, and the function returned
\* True exactly when every Patch ended applied or skipped
AllAttemptedAndCounted ==
    /\ Len(results) = Len(patches)
    /\ returned = "True" <=> \A n \in 1..Len(results) : Succeeded(results[n].result)

\* C11: the Patches are attempted in script order; with stop_on_fail set no
\* Patch is attempted after one that ended failed or hunk_failed and the
\* function returns False; with stop_on_fail unset, on a script with at least
\* one Patch, every Patch is attempted and the function returns True exactly
\* when every Patch ended applied or skipped
C11_FailurePropagation ==
    /\ AttemptedInScriptOrder
    /\ StopsOnFirstFailure
    /\ (~stop_on_fail /\ returned \in {"True", "False"} /\ patches # <<>>)
           => AllAttemptedAndCounted

\* C11 as stated, for every script: with stop_on_fail unset the function
\* returns True exactly when every Patch ended applied or skipped
C11_AsStated ==
    /\ AttemptedInScriptOrder
    /\ StopsOnFirstFailure
    /\ (~stop_on_fail /\ returned \in {"True", "False"})
           => AllAttemptedAndCounted

\* with stop_on_fail unset the first Patch failed, two more were attempted,
\* one of them was applied, and the function returned False
C11_Witness ==
    /\ ~stop_on_fail
    /\ returned = "False"
    /\ Len(results) = 3
    /\ ~Succeeded(results[1].result)
    /\ results[2].result = "applied"
    /\ work_dir # InitialWorkDir

(***************************************************************************)
(* Claims about the line normaliser                                        *)
(***************************************************************************)

\* the register-like tokens of s that directly follow a colon, in order
RECURSIVE LabelTokens(_, _)
LabelTokens(s, i) ==
    IF i >= Len(s) THEN <<>>
    ELSE LET d == DigitRun(SubSeq(s, i + 2, Len(s)))
         IN  IF s[i] = ":" /\ s[i + 1] \in {"v", "p"} /\ d >= 1
             THEN <<SubSeq(s, i + 1, i + 1 + d)>> \o LabelTokens(s, i + 1)
             ELSE LabelTokens(s, i + 1)

\* no token that directly follows a colon has been rewritten: the normalized
\* line holds the same ones as the line
LabelsKept(line, normalized) ==
    normalized # None
        => LabelTokens(normalized, 1) = LabelTokens(CollapseSpace(Strip(line)), 1)

\* C12: two lines that are not ignorable and differ only in the digits of
\* standalone register tokens have equal normalized forms when non_strict is
\* set and different ones when it is not; a register-like token directly
\* after a colon is rewritten in neither mode
C12_RegisterGeneralization ==
    pc = "done" =>
        /\ (lines[1] # lines[2] /\ result[1] # None /\ result[2] # None)
               => (non_strict <=> result[1] = result[2])
        /\ LabelsKept(lines[1], result[1])
        /\ LabelsKept(lines[2], result[2])

\* C12 as stated, for every two lines that differ only in the digits of
\* standalone register tokens
C12_AsStated ==
    pc = "done" =>
        /\ lines[1] # lines[2] => (non_strict <=> result[1] = result[2])
        /\ LabelsKept(lines[1], result[1])
        /\ LabelsKept(lines[2], result[2])

\* in non-strict mode two lines with a label and a register of different
\* digits got the same normalized form, the label in it as it was
C12_Witness ==
    /\ pc = "done"
    /\ non_strict
    /\ lines[1] # lines[2]
    /\ result[1] # None
    /\ result[1] = result[2]
    /\ LabelTokens(lines[1], 1) # <<>>
    /\ LabelTokens(result[2], 1) = LabelTokens(lines[2], 1)

(***************************************************************************)
(* Claims about file creation                                              *)
(***************************************************************************)

\* apply_create_action has returned for a FileCreate Patch
FileCreateReturned ==
    /\ status # "none"
    /\ patch.type = "CREATE"

\* C13: apply_create_action on a path where a file exists returns skipped
\* and leaves the file as it was; where no file exists it creates the file
\* with the Patch's content, so the same Patch applied again is skipped and
\* changes nothing
C13_NoOverwriteOnCreate ==
    FileCreateReturned =>
        IF before.exists
        THEN status = "skipped" /\ disk = before
        ELSE /\ status = "created"
             /\ disk = File(WriteLines(patch.content))
             /\ \A again \in {apply_create_action(disk, patch)} :
                    again.status = "skipped" /\ again.disk = disk

\* a CREATE Patch was skipped on the file that the same Patch had created
\* earlier in the run, and the file is as it was
C13_Witness ==
    /\ FileCreateReturned
    /\ status = "skipped"
    /\ before.exists
    /\ before \notin InitialFiles
    /\ before.content = WriteLines(patch.content)
    /\ disk = before

(***************************************************************************)
(* Claims about ignorable lines in the script and in the target            *)
(***************************************************************************)

\* the operations without the Context and Delete operations whose text is
\* ignorable
WithoutIgnorableAnchors(operations, ns) ==
    SelectSeq(operations, LAMBDA o : o.op = "+" \/ ~Ignorable(o.line, ns))

\* C14: a Context or Delete operation whose text is ignorable consumes no
\* target line: the output of an action that holds such operations equals
\* the output of the same action without them
C14_IgnorableAnchorNoOp ==
    (/\ pc = "done"
     /\ action.type = "PATCH"
     /\ ~NoIgnorableAnchor(action.operations, non_strict))
        => result = _apply_patch(lines,
                        [action EXCEPT !.operations =
                            WithoutIgnorableAnchors(action.operations, non_strict)],
                        non_strict)

\* the ignorable lines of ls, in order
IgnorableLines(ls, ns) == SelectSeq(ls, LAMBDA l : Ignorable(l, ns))

\* a is b with some elements left out
RECURSIVE IsSubsequence(_, _)
IsSubsequence(a, b) ==
    IF a = <<>> THEN TRUE
    ELSE IF b = <<>> THEN FALSE
    ELSE IF Head(a) = Head(b) THEN IsSubsequence(Tail(a), Tail(b))
    ELSE IsSubsequence(a, Tail(b))

\* number of operations of the kind op
CountOps(operations, op) == Len(SelectSeq(operations, LAMBDA o : o.op = op))

\* C15: a successful PATCH copies every ignorable target line into the
\* output and removes only the lines its Delete operations matched: the
\* output holds the ignorable lines of the target in their order, and is as
\* long as the target, plus one line per Add, minus one line per Delete
C15_IgnorableTargetLinesKept ==
    (pc = "done" /\ action.type = "PATCH" /\ result # Fail) =>
        /\ IsSubsequence(IgnorableLines(lines, non_strict),
                         IgnorableLines(result, non_strict))
        /\ Len(result) = Len(lines) + CountOps(action.operations, "+")
                                    - CountOps(action.operations, "-")

(***************************************************************************)
(* Claims about the choice among several matches                           *)
(***************************************************************************)

\* the target lines at which a match of the anchors can begin: the first
\* matched line of every alignment
Occurrences(ls, operations, ns) ==
    {NthMeaningful(ls, s, 1, ns) :
        s \in {r \in 1..Len(ls) : AlignsAt(ls, operations, r, ns)}}

\* the last target line of the match that starts lowest
FirstMatchEnd(ls, operations, ns) ==
    NthMeaningful(ls, FirstAlignment(ls, operations, ns),
                  Len(Anchors(operations)), ns)

\* the last n lines of ls
LastLines(ls, n) == SubSeq(ls, Len(ls) - n + 1, Len(ls))

\* the anchors of the action match at more than one place of the target
C17_Case ==
    /\ pc = "done"
    /\ action.type = "PATCH"
    /\ Anchors(WithoutIgnorableAnchors(action.operations, non_strict)) # <<>>
    /\ Cardinality(Occurrences(lines,
           WithoutIgnorableAnchors(action.operations, non_strict),
           non_strict)) >= 2

\* C17: when the fingerprint matches at more than one place, the edit is made
\* at the lowest one only: the action succeeds, the lines before that match
\* are unchanged, and so is every line after its last matched line, the
\* other matches among them
C17_FirstMatchWins ==
    C17_Case =>
        \A ops \in {WithoutIgnorableAnchors(action.operations, non_strict)} :
            \A s \in {FirstAlignment(lines, ops, non_strict)},
               e \in {FirstMatchEnd(lines, ops, non_strict)} :
                /\ result # Fail
                /\ Len(result) >= (s - 1) + (Len(lines) - e)
                /\ SubSeq(result, 1, s - 1) = SubSeq(lines, 1, s - 1)
                /\ LastLines(result, Len(lines) - e) = LastLines(lines, Len(lines) - e)

(***************************************************************************)
(* Claims about the script parser                                          *)
(***************************************************************************)

\* a stripped line that starts with a recognized keyword: FILE <path>,
\* CREATE <path>, REPLACE <signature>, PATCH, CREATE_METHOD
IsKeywordLine(line) ==
    \/ StartsWith(line, KwFile)
    \/ StartsWith(line, KwCreate)
    \/ StartsWith(line, KwReplace)
    \/ line = KwPatch
    \/ StartsWith(line, KwPatch \o <<" ">>)
    \/ line = KwCreateMethod

\* the script lines captured as the content of an action
ContentLines(a) ==
    IF a.type = "PATCH"
    THEN [k \in 1..Len(a.operations) |->
             IF a.operations[k].op = " " THEN a.operations[k].line
             ELSE <<a.operations[k].op, " ">> \o a.operations[k].line]
    ELSE a.content

\* the lines of the script that open an action block
ActionLines(ls) == SelectSeq(ls, LAMBDA l : OpenedAction(Strip(l)) # "")

\* a script that is one FILE block without any END: a FILE line, then
\* action keyword lines and content lines only
OneOpenFileBlock(ls) ==
    /\ ls # <<>>
    /\ StartsWith(Strip(ls[1]), KwFile)
    /\ \A k \in 2..Len(ls) :
           /\ ~StartsWith(Strip(ls[k]), KwFile)
           /\ ~StartsWith(Strip(ls[k]), KwCreate)
    /\ \A k \in 1..Len(ls) : Strip(ls[k]) # KwEnd

\* C16: inside a FILE block the content of an action block ends at the next
\* line that starts with a recognized keyword: no keyword line is captured
\* as content, and in a FILE block without any END every action keyword line
\* opens an action of its type
C16_BlockTermination ==
    pc = "done" =>
        /\ \A n \in 1..Len(parsed) :
               parsed[n].type = "FILE" =>
                   \A j \in 1..Len(parsed[n].actions) :
                       \A c \in 1..Len(ContentLines(parsed[n].actions[j])) :
                           ~IsKeywordLine(
                               Strip(ContentLines(parsed[n].actions[j])[c]))
        /\ OneOpenFileBlock(script) =>
               /\ Len(parsed) = 1
               /\ Len(parsed[1].actions) = Len(ActionLines(script))
               /\ \A j \in 1..Len(ActionLines(script)) :
                      parsed[1].actions[j].type
                          = OpenedAction(Strip(ActionLines(script)[j]))

====
